---- MODULE Spec2Model ----
(***************************************************************************)
(* Eventually-consistent state poller of the storage services.             *)
(*                                                                         *)
(* One poll session: a StateChangeConf built at a call site (container     *)
(* wrapper, share wrapper, share directory resource) or around a fake      *)
(* operation, and the WaitForStateContext loop that drives its Refresh     *)
(* function.  Time is counted in seconds from the start of the session.    *)
(***************************************************************************)
EXTENDS Integers, Sequences, FiniteSets, TLC

(***************************************************************************)
(* Bounds of the model.                                                    *)
(***************************************************************************)
MaxCallDuration == 1
MaxFakeNotFoundChecks == 2
ShortTimeout == 5
ExampleTimeout == 60
LongTimeout == 1830

(***************************************************************************)
(* Constants of the program.                                               *)
(***************************************************************************)
PollInterval == 10
NotFoundChecks == 180
\* a MinTimeout of 10 milliseconds, in whole seconds
MinTimeoutMilliseconds == 10 \div 1000
MinTimeout == 10
ContinuousTargetOccurence == 5
StatusOK == 200
StatusNotFound == 404
StatusConflict == 409
DefaultNotFoundChecks == 20
DefaultContinuousTargetOccurence == 1

Max(a, b) == IF a >= b THEN a ELSE b

(***************************************************************************)
(* Answers of the data-plane client.  hasResp = FALSE is a call that       *)
(* failed without an HTTP response (HttpResponse is nil).  Any answer that *)
(* is not a 2xx carries an error; beingDeleted says that the error text    *)
(* contains the "...BeingDeleted" marker.                                  *)
(***************************************************************************)
Resp(h, s, e, b) == [hasResp |-> h, status |-> s, err |-> e, beingDeleted |-> b]

NoResp == Resp(FALSE, 0, FALSE, FALSE)

CreateResponses ==
    { Resp(TRUE, 201, FALSE, FALSE),
      Resp(TRUE, StatusConflict, TRUE, TRUE),
      Resp(TRUE, StatusConflict, TRUE, FALSE),
      Resp(TRUE, 500, TRUE, FALSE),
      Resp(FALSE, 0, TRUE, FALSE) }

GetResponses ==
    { Resp(TRUE, StatusOK, FALSE, FALSE),
      Resp(TRUE, StatusNotFound, TRUE, FALSE),
      Resp(TRUE, 500, TRUE, FALSE),
      Resp(FALSE, 0, TRUE, FALSE) }

WasConflict(resp) == resp.hasResp /\ resp.status = StatusConflict

(***************************************************************************)
(* What a Refresh function hands to the poller: the result (nil or an      *)
(* object), the state label and the error; panic = TRUE when the function  *)
(* dereferences a nil HttpResponse instead of returning.                   *)
(***************************************************************************)
Result(r, s, e) == [res |-> r, state |-> s, err |-> e, panic |-> FALSE]

Panic == [res |-> "nil", state |-> "", err |-> FALSE, panic |-> TRUE]

StatusLabel(s) ==
    CASE s = StatusOK -> "200"
      [] s = 201 -> "201"
      [] s = StatusNotFound -> "404"
      [] s = StatusConflict -> "409"
      [] OTHER -> "500"

\* createRefreshFunc that retries on every conflict, whatever its message
containerCreateRefreshFuncAnyConflict(resp) ==
    IF resp.err
    THEN IF ~WasConflict(resp)
         THEN Result("nil", "", TRUE)
         ELSE Result("nil", "waitingOnDelete", FALSE)
    ELSE Result("obj", "succeeded", FALSE)

\* createRefreshFunc of the container wrapper (shim/containers_data_plane.go)
containerCreateRefreshFunc(resp) ==
    IF resp.err
    THEN IF ~WasConflict(resp)
         THEN Result("nil", "", TRUE)
         ELSE IF WasConflict(resp) /\ resp.beingDeleted
              THEN Result("nil", "waitingOnDelete", FALSE)
              ELSE Result("obj", "succeeded", FALSE)
    ELSE Result("obj", "succeeded", FALSE)

\* createRefreshFunc of the older container wrapper, which reads
\* resp.HttpResponse.StatusCode without a nil check
containerCreateRefreshFuncOld(resp) ==
    IF resp.err
    THEN IF ~resp.hasResp
         THEN Panic
         ELSE IF resp.status # StatusConflict
              THEN Result("nil", "", TRUE)
              ELSE IF resp.status = StatusConflict /\ resp.beingDeleted
                   THEN Result("nil", "waitingOnDelete", FALSE)
                   ELSE Result("obj", "succeeded", FALSE)
    ELSE Result("obj", "succeeded", FALSE)

\* createRefreshFunc that hands back a result while the delete is in progress
shareCreateRefreshFuncWithResult(resp) ==
    IF resp.err
    THEN IF ~WasConflict(resp)
         THEN Result("nil", "", TRUE)
         ELSE IF WasConflict(resp) /\ resp.beingDeleted
              THEN Result("obj", "waitingOnDelete", FALSE)
              ELSE Result("obj", "succeeded", FALSE)
    ELSE Result("obj", "succeeded", FALSE)

\* createRefreshFunc that treats every failed create as still being deleted
shareCreateRefreshFuncAnyError(resp) ==
    IF resp.err
    THEN Result("nil", "waitingOnDelete", FALSE)
    ELSE Result("obj", "succeeded", FALSE)

\* createRefreshFunc of the share wrapper
shareCreateRefreshFunc(resp) ==
    IF resp.err
    THEN IF ~WasConflict(resp)
         THEN Result("nil", "", TRUE)
         ELSE IF WasConflict(resp) /\ resp.beingDeleted
              THEN Result("nil", "waitingOnDelete", FALSE)
              ELSE Result("obj", "succeeded", FALSE)
    ELSE Result("obj", "succeeded", FALSE)

\* storageShareDirectoryRefreshFunc
storageShareDirectoryRefreshFunc(resp) ==
    IF resp.err
    THEN IF ~resp.hasResp
         THEN Panic
         ELSE Result("nil", StatusLabel(resp.status), TRUE)
    ELSE Result("obj", StatusLabel(resp.status), FALSE)

(***************************************************************************)
(* The fake operation of the poller's tests: it may answer anything.       *)
(***************************************************************************)
FakeResults ==
    { Result("obj", "404", FALSE),
      Result("nil", "404", FALSE),
      Result("obj", "200", FALSE),
      Result("obj", "500", FALSE),
      Result("nil", "", TRUE) }

(***************************************************************************)
(* StateChangeConf of each call site; 0 is a field left unset.             *)
(***************************************************************************)
Conf(p, t, pi, mt, nf, cto, to) ==
    [Pending |-> p, Target |-> t, PollInterval |-> pi, MinTimeout |-> mt,
     NotFoundChecks |-> nf, ContinuousTargetOccurence |-> cto, Timeout |-> to]

\* the container conf with the share directory's ContinuousTargetOccurence
ContainerConfContinuous(timeout) ==
    Conf({"waitingOnDelete"}, {"succeeded"}, PollInterval, 0, NotFoundChecks,
         ContinuousTargetOccurence, timeout)

ContainerConf(timeout) ==
    Conf({"waitingOnDelete"}, {"succeeded"}, PollInterval, 0, NotFoundChecks, 0, timeout)

\* the share conf with the share directory's ContinuousTargetOccurence
ShareConfContinuous(timeout) ==
    Conf({"waitingOnDelete"}, {"succeeded"}, PollInterval, 0, NotFoundChecks,
         ContinuousTargetOccurence, timeout)

\* the share conf without NotFoundChecks, which leaves the default in force
ShareConfDefaultChecks(timeout) ==
    Conf({"waitingOnDelete"}, {"succeeded"}, PollInterval, 0, 0, 0, timeout)

\* the share conf with a timeout that outlasts the context's deadline
ShareConfLate(timeout) ==
    Conf({"waitingOnDelete"}, {"succeeded"}, PollInterval, 0, NotFoundChecks, 0,
         timeout + PollInterval)

ShareConf(timeout) ==
    Conf({"waitingOnDelete"}, {"succeeded"}, PollInterval, 0, NotFoundChecks, 0, timeout)

\* the share directory conf without MinTimeout
ShareDirectoryConfNoMinTimeout(timeout) ==
    Conf({"404"}, {"200"}, 0, 0, 0, ContinuousTargetOccurence, timeout)

ShareDirectoryConf(timeout) ==
    Conf({"404"}, {"200"}, 0, MinTimeout, 0, ContinuousTargetOccurence, timeout)

FakeConf(nf, timeout) ==
    Conf({"404"}, {"200"}, 0, MinTimeout, nf, 0, timeout)

Sites == {"container", "containerOld", "share", "shareDirectory", "fake"}

\* time left until the deadline of the calling context; LongTimeout is a
\* create timeout raised above the 30 minutes the share resource declares
SiteTimeouts(s) ==
    CASE s = "share" -> {ShortTimeout, ExampleTimeout, LongTimeout}
      [] s = "fake" -> {ShortTimeout, ExampleTimeout}
                          \cup { n * MinTimeout + 1 : n \in 1..MaxFakeNotFoundChecks }
      [] OTHER -> {ShortTimeout, ExampleTimeout}

\* the StateChangeConf a call site builds when the context has t seconds left
SiteConfs(s, t) ==
    CASE s = "container" -> { ContainerConf(t) }
      [] s = "containerOld" -> { ContainerConf(t) }
      [] s = "share" -> { ShareConf(t) }
      [] s = "shareDirectory" -> { ShareDirectoryConf(t) }
      [] OTHER -> { FakeConf(n, t) : n \in 1..MaxFakeNotFoundChecks }

\* Refresh with a share-directory status check that blocks and never returns
RefreshBlocks(s) ==
    CASE s = "container" ->
            { [resp |-> c, r |-> containerCreateRefreshFunc(c)] : c \in CreateResponses }
      [] s = "containerOld" ->
            { [resp |-> c, r |-> containerCreateRefreshFuncOld(c)] : c \in CreateResponses }
      [] s = "share" ->
            { [resp |-> c, r |-> shareCreateRefreshFunc(c)] : c \in CreateResponses }
      [] s = "shareDirectory" -> {}
      [] OTHER ->
            { [resp |-> NoResp, r |-> f] : f \in FakeResults }

\* one invocation of conf.Refresh: the client's answer and what Refresh returns
Refresh(s) ==
    CASE s = "container" ->
            { [resp |-> c, r |-> containerCreateRefreshFunc(c)] : c \in CreateResponses }
      [] s = "containerOld" ->
            { [resp |-> c, r |-> containerCreateRefreshFuncOld(c)] : c \in CreateResponses }
      [] s = "share" ->
            { [resp |-> c, r |-> shareCreateRefreshFunc(c)] : c \in CreateResponses }
      [] s = "shareDirectory" ->
            { [resp |-> c, r |-> storageShareDirectoryRefreshFunc(c)] : c \in GetResponses }
      [] OTHER ->
            { [resp |-> NoResp, r |-> f] : f \in FakeResults }

(***************************************************************************)
(* State of the other specifications of this module; the poll session of  *)
(* WaitForStateContext leaves it alone.                                    *)
(***************************************************************************)
\* stateConf: the StateChangeConf each running Create call has built;
\* sess: the poll session of each of two concurrent share Create calls
VARIABLES stateConf, sess

pairVars == <<stateConf, sess>>

\* one run of a resource function: the resource and function that run, the
\* position in it, the requests sent so far in their order, the ID held in
\* the resource data, what the function returned, and the answers that
\* the function received (observed)
VARIABLES resource, operation, at, requests, resourceId, returned, observed

crudVars == <<resource, operation, at, requests, resourceId, returned, observed>>

\* no resource function runs
CrudIdle ==
    /\ resource = "none"
    /\ operation = "none"
    /\ at = "none"
    /\ requests = <<>>
    /\ resourceId = ""
    /\ returned = "none"
    /\ observed = <<>>

\* one parse of a resource ID: the four names, the ID string handed to the
\* parser as its "/"-separated components, how that string was made, and
\* what the parser returned
VARIABLES idNames, idInput, idShape, idResult

idVars == <<idNames, idInput, idShape, idResult>>

\* the parser has not returned
NotParsed == [ok |-> FALSE, error |-> FALSE]

\* no ID is parsed
IdIdle ==
    /\ idNames = <<>>
    /\ idInput = <<>>
    /\ idShape = "none"
    /\ idResult = NotParsed

(***************************************************************************)
(* One wrapper's Exists is called on a lookup that the remote has answered. *)
(***************************************************************************)
VARIABLES existsResponse, existsResult

existsVars == <<existsResponse, existsResult>>

\* no lookup was answered
ExistsIdle ==
    /\ existsResponse = NoResp
    /\ existsResult = <<>>

(***************************************************************************)
(* Data disk attachment operations that run at the same time: the named     *)
(* locks, the data disks of each machine on the remote side, the list that  *)
(* the successful writes would give when applied one after another, and     *)
(* each operation's position and its copy of the machine.                  *)
(***************************************************************************)
VARIABLES vmLock, dataDisks, serialDisks, proc

lockVars == <<vmLock, dataDisks, serialDisks, proc>>

\* no operation runs
LockIdle ==
    /\ vmLock = <<>>
    /\ dataDisks = <<>>
    /\ serialDisks = <<>>
    /\ proc = <<>>

otherVars == <<pairVars, crudVars, idVars, existsVars, lockVars>>

(***************************************************************************)
(* WaitForStateContext.                                                    *)
(***************************************************************************)
VARIABLES site, deadline, conf, pc, now, notfoundTick, targetOccurence, calls,
          lastCall, prevCall, trace, outcome, class

vars == <<site, deadline, conf, pc, now, notfoundTick, targetOccurence, calls,
          lastCall, prevCall, trace, outcome, class, otherVars>>

\* the defaults WaitForStateContext fills in
NotFoundLimit(c) ==
    IF c.NotFoundChecks = 0 THEN DefaultNotFoundChecks ELSE c.NotFoundChecks

TargetOccurences(c) ==
    IF c.ContinuousTargetOccurence = 0
    THEN DefaultContinuousTargetOccurence
    ELSE c.ContinuousTargetOccurence

\* the wait between two refreshes
Interval(c) == IF c.PollInterval > 0 THEN c.PollInterval ELSE c.MinTimeout

Deadline(c) == c.Timeout

\* classification of one answer of the operation
Classify(c, r) ==
    IF r.panic \/ r.err THEN "terminal-error"
    ELSE IF r.state \in c.Target THEN "target"
    ELSE IF r.state \in c.Pending THEN "pending"
    ELSE "terminal-error"

\* the distinguished "not found" answer: pending, with no object
IsNotFound(c, r) == Classify(c, r) = "pending" /\ r.res = "nil"

Init ==
    /\ site \in Sites
    /\ deadline \in SiteTimeouts(site)
    /\ conf \in SiteConfs(site, deadline)
    /\ pc = "ready"
    /\ now = 0
    /\ notfoundTick = 0
    /\ targetOccurence = 0
    /\ calls = 0
    /\ lastCall = 0
    /\ prevCall = 0
    /\ trace = <<>>
    /\ outcome = "none"
    /\ class = "unclassified"
    /\ stateConf = <<>>
    /\ sess = <<>>
    /\ CrudIdle
    /\ IdIdle
    /\ ExistsIdle
    /\ LockIdle

\* step 1 without the wait for the answer: a call starts while one is out
InvokeOverlapping ==
    /\ pc \in {"ready", "inflight"}
    /\ pc' = "inflight"
    /\ calls' = calls + 1
    /\ prevCall' = lastCall
    /\ lastCall' = now
    /\ UNCHANGED <<site, deadline, conf, now, notfoundTick, targetOccurence, trace,
                   outcome, class, otherVars>>

\* step 1: invoke the operation
Invoke ==
    /\ pc = "ready"
    /\ pc' = "inflight"
    /\ calls' = calls + 1
    /\ prevCall' = lastCall
    /\ lastCall' = now
    /\ UNCHANGED <<site, deadline, conf, now, notfoundTick, targetOccurence, trace,
                   outcome, class, otherVars>>

Finish(o) == pc' = "done" /\ outcome' = o

\* a call returns at once or takes the longest time a call may take
CallDurations == {0, MaxCallDuration}

\* steps 2 to 4: the operation returns after d seconds and is classified
Return ==
    /\ pc = "inflight"
    /\ \E d \in CallDurations, a \in Refresh(site) :
         LET r == a.r
             k == Classify(conf, r)
             t == now + d
             nf == IF IsNotFound(conf, r) THEN notfoundTick + 1 ELSE 0
             occ == IF k = "target" THEN targetOccurence + 1 ELSE 0
         IN /\ now' = t
            /\ trace' = Append(trace, [resp |-> a.resp, r |-> r])
            /\ class' = k
            /\ notfoundTick' = nf
            /\ targetOccurence' = occ
            /\ CASE r.panic -> Finish("panic")
                 [] ~r.panic /\ r.err -> Finish("error")
                 [] k = "target" /\ occ = TargetOccurences(conf) -> Finish("success")
                 [] k = "target" /\ occ # TargetOccurences(conf) ->
                        pc' = "sleeping" /\ outcome' = outcome
                 [] k = "pending" /\ nf > NotFoundLimit(conf) ->
                        IF t >= Deadline(conf) THEN Finish("timeout") ELSE Finish("notfound")
                 [] k = "pending" /\ nf <= NotFoundLimit(conf) ->
                        pc' = "sleeping" /\ outcome' = outcome
                 [] OTHER -> Finish("unexpected")
    /\ UNCHANGED <<site, deadline, conf, calls, lastCall, prevCall, otherVars>>

\* step 3: sleep for the interval, woken early by the deadline
Sleep ==
    /\ pc = "sleeping"
    /\ IF now + Interval(conf) >= Deadline(conf)
       THEN /\ now' = Max(now, Deadline(conf))
            /\ Finish("timeout")
       ELSE /\ now' = now + Interval(conf)
            /\ pc' = "ready"
            /\ outcome' = outcome
    /\ UNCHANGED <<site, deadline, conf, notfoundTick, targetOccurence, calls,
                   lastCall, prevCall, trace, class, otherVars>>

Next == Invoke \/ Return \/ Sleep

Spec == Init /\ [][Next]_vars

\* the loop runs on its own goroutine and timers: an enabled step is taken
FairSpec == Spec /\ WF_vars(Next)

TypeOK ==
    /\ site \in Sites
    /\ deadline \in SiteTimeouts(site)
    /\ conf \in SiteConfs(site, deadline)
    /\ pc \in {"ready", "inflight", "sleeping", "done"}
    /\ now \in Nat
    /\ notfoundTick \in Nat
    /\ targetOccurence \in Nat
    /\ calls \in Nat
    /\ outcome \in {"none", "success", "error", "unexpected", "notfound", "timeout", "panic"}
    /\ class \in {"unclassified", "pending", "target", "terminal-error"}

(***************************************************************************)
(* Helpers over the answers seen so far.                                   *)
(***************************************************************************)
Done == pc = "done"

\* the last n answers are all of them "not found"
LastAreNotFound(n) ==
    /\ Len(trace) >= n
    /\ \A j \in (Len(trace) - n + 1)..Len(trace) : IsNotFound(conf, trace[j].r)

\* the last n answers are all of them target states
LastAreTarget(n) ==
    /\ Len(trace) >= n
    /\ \A j \in (Len(trace) - n + 1)..Len(trace) : Classify(conf, trace[j].r) = "target"

(***************************************************************************)
(* C1: every poll session terminates, and it ends by a target state, by an *)
(* error or unrecognized state of the operation, or by deadline expiry.    *)
(* This is the claim as stated; a session that ends because the not-found  *)
(* limit was exceeded refutes it.                                          *)
(***************************************************************************)
C1_EndsByTargetErrorOrDeadline ==
    Done => outcome \in {"success", "error", "unexpected", "panic", "timeout"}

(***************************************************************************)
(* C1 as amended: every poll session terminates, by a target state, by an  *)
(* error / unrecognized state / crash of the operation, by deadline        *)
(* expiry, or because the not-found limit was exceeded.                    *)
(***************************************************************************)
C1_Terminates ==
    <>(Done /\ outcome \in {"success", "error", "unexpected", "panic",
                             "timeout", "notfound"})

C1_Witness ==
    Done /\ outcome = "notfound" /\ site = "share" /\ calls = NotFoundChecks + 1

FirstIsTarget == Len(trace) >= 1 /\ Classify(conf, trace[1].r) = "target"

(***************************************************************************)
(* C2: if the operation returns a target state on its first invocation,    *)
(* WaitFor returns success after exactly one invocation, at every call     *)
(* site.  This is the claim as stated; the share-directory wait, which     *)
(* asks for 5 continuous target occurrences, refutes it.                   *)
(***************************************************************************)
C2_FirstTargetOneInvocation ==
    FirstIsTarget => Done /\ outcome = "success" /\ calls = 1

(***************************************************************************)
(* C2 as amended: if the first invocation returns a target state, WaitFor  *)
(* returns success after exactly one invocation at the container and share *)
(* call sites (and for a configuration without ContinuousTargetOccurence); *)
(* at the share-directory wait it returns success only after 5 target      *)
(* states in a row, so not before the 5th invocation.                      *)
(***************************************************************************)
C2_FirstTargetSucceeds ==
    FirstIsTarget =>
        /\ site # "shareDirectory" => Done /\ outcome = "success" /\ calls = 1
        /\ site = "shareDirectory" /\ outcome = "success" =>
              /\ calls >= ContinuousTargetOccurence
              /\ LastAreTarget(ContinuousTargetOccurence)

C2_Witness ==
    /\ FirstIsTarget
    /\ site = "shareDirectory"
    /\ outcome = "success"
    /\ calls = ContinuousTargetOccurence

\* the answers after which the session is over
IsTerminal(i) == Classify(conf, trace[i].r) = "terminal-error"

\* The trace grows by one answer at a time and is never rewritten, so a
\* property of every answer but the last is checked on the last but one.
Retried == IF Len(trace) >= 2 THEN {Len(trace) - 1} ELSE {}

TerminalAnswerEndsSession ==
    /\ \A i \in Retried : ~IsTerminal(i)
    /\ Len(trace) >= 1 /\ IsTerminal(Len(trace)) =>
            /\ Done
            /\ calls = Len(trace)
            /\ outcome \in {"error", "unexpected", "panic"}

(***************************************************************************)
(* C3: an error of the operation, or a state that is neither pending nor   *)
(* target, ends the session at once with no further invocation, and only   *)
(* pending states lead to another invocation.  This is the claim as        *)
(* stated; a target state seen at the share-directory wait, which is       *)
(* followed by another invocation, refutes it.                             *)
(***************************************************************************)
C3_OnlyPendingRetried ==
    /\ TerminalAnswerEndsSession
    /\ \A i \in Retried : Classify(conf, trace[i].r) = "pending"

(***************************************************************************)
(* C3 as amended: an error of the operation, or a state that is neither    *)
(* pending nor target, ends the session at once with no further            *)
(* invocation.  Another invocation follows only a pending state (at the    *)
(* container and share sites: a 409 whose message has the BeingDeleted     *)
(* marker) or, at the share-directory wait, a target state (a 200 without  *)
(* error) that was not yet seen 5 times in a row.                          *)
(***************************************************************************)
C3_TerminalNotRetried ==
    /\ TerminalAnswerEndsSession
    /\ \A i \in Retried :
          /\ \/ Classify(conf, trace[i].r) = "pending"
             \/ Classify(conf, trace[i].r) = "target" /\ site = "shareDirectory"
          /\ site \in {"container", "containerOld", "share"} =>
                WasConflict(trace[i].resp) /\ trace[i].resp.beingDeleted
          /\ site = "shareDirectory" =>
                trace[i].resp.status = StatusOK /\ ~trace[i].resp.err

C3_Witness ==
    /\ Done
    /\ outcome = "error"
    /\ site = "container"
    /\ Len(trace) >= 2
    /\ calls = Len(trace)

\* every answer so far was a pending state that is not the "not found" one
AllPendingFound ==
    /\ Len(trace) >= 1
    /\ \A i \in 1..Len(trace) :
          Classify(conf, trace[i].r) = "pending" /\ ~IsNotFound(conf, trace[i].r)

(***************************************************************************)
(* C4: if the operation returns a pending state other than "not found" on  *)
(* every invocation, WaitFor fails with Deadline Exceeded, and not before   *)
(* the deadline; once the deadline of the calling context is reached, also *)
(* during a sleep, the operation is not invoked again.                     *)
(***************************************************************************)
C4_DeadlineExceeded ==
    /\ calls >= 1 => lastCall < deadline
    /\ outcome = "timeout" => now >= deadline
    /\ Done /\ AllPendingFound => outcome = "timeout"

C4_Witness ==
    /\ site = "fake"
    /\ Done
    /\ AllPendingFound
    /\ outcome = "timeout"
    /\ calls >= 2
    /\ now = deadline

(***************************************************************************)
(* C5: if the operation returns the "not found" pending state more than    *)
(* notFoundLimit times in a row and deadline > notFoundLimit * minInterval,*)
(* WaitFor fails with Not-Found-Limit Exceeded strictly before the         *)
(* deadline.  This is the claim as stated; a session whose calls take time *)
(* gets the last of these answers at or after the deadline and refutes it. *)
(***************************************************************************)
C5_NotFoundLimitBeforeDeadline ==
    /\ LastAreNotFound(NotFoundLimit(conf) + 1)
    /\ deadline > NotFoundLimit(conf) * Interval(conf)
    => Done /\ outcome = "notfound" /\ now < deadline

(***************************************************************************)
(* C5 as amended: if the operation returns the "not found" pending state   *)
(* more than notFoundLimit times in a row and the last of these answers    *)
(* arrives before the deadline, WaitFor fails with Not-Found-Limit         *)
(* Exceeded at that answer, strictly before the deadline (after 181        *)
(* invocations at the share call site); when that answer arrives at or     *)
(* after the deadline, the session fails with Deadline Exceeded.           *)
(* deadline > notFoundLimit * minInterval is necessary for the not-found   *)
(* failure, not sufficient.                                                *)
(***************************************************************************)
C5_NotFoundLimitWhenInTime ==
    /\ LastAreNotFound(NotFoundLimit(conf) + 1) =>
          /\ Done
          /\ outcome = (IF now < deadline THEN "notfound" ELSE "timeout")
    /\ outcome = "notfound" =>
          /\ now < deadline
          /\ LastAreNotFound(NotFoundLimit(conf) + 1)
          /\ deadline > NotFoundLimit(conf) * Interval(conf)
    /\ outcome = "notfound" /\ site = "share" => calls = NotFoundChecks + 1

C5_Witness ==
    /\ site = "share"
    /\ outcome = "notfound"
    /\ LastAreNotFound(NotFoundChecks + 1)
    /\ now < deadline

FirstIsUnrecognized ==
    /\ Len(trace) >= 1
    /\ ~trace[1].r.err
    /\ ~trace[1].r.panic
    /\ trace[1].r.state \notin (conf.Pending \cup conf.Target)

(***************************************************************************)
(* C6: if the operation returns an unrecognized state (neither pending nor *)
(* target) on the first call, WaitFor fails with Unrecognized State after  *)
(* that single invocation, whatever the deadline; so does the share        *)
(* wrapper's refresh function, whose state for a failed create that is no  *)
(* conflict is the empty label together with the error.                    *)
(***************************************************************************)
C6_UnrecognizedFailsAtOnce ==
    /\ FirstIsUnrecognized => Done /\ outcome = "unexpected" /\ calls = 1
    /\ /\ site = "share"
       /\ Len(trace) >= 1
       /\ trace[1].resp.err
       /\ ~WasConflict(trace[1].resp)
       => Done /\ outcome = "error" /\ calls = 1

C6_Witness ==
    /\ FirstIsUnrecognized
    /\ Done
    /\ outcome = "unexpected"
    /\ calls = 1
    /\ now < deadline

\* the minimum interval each call site configures
MinInterval == IF site \in {"shareDirectory", "fake"} THEN MinTimeout ELSE PollInterval

(***************************************************************************)
(* C7: within one poll session two successive invocations of the operation *)
(* are at least minInterval (10 seconds) apart.                            *)
(***************************************************************************)
C7_Spacing == calls >= 2 => lastCall - prevCall >= MinInterval

C7_Witness ==
    /\ site = "shareDirectory"
    /\ calls >= 2
    /\ lastCall - prevCall = MinTimeout

ExampleAnswers ==
    /\ Len(trace) >= 4
    /\ \A i \in 1..3 : trace[i].r.state = "404" /\ ~trace[i].r.err
    /\ trace[4].r.state = "200" /\ ~trace[4].r.err

(***************************************************************************)
(* C8: with pendingStates = {"404"}, targetStates = {"200"}, minInterval = *)
(* 10s and a deadline 60s away, an operation that returns "404" three      *)
(* times and then "200" makes WaitFor succeed on the 4th call, with        *)
(* exactly 4 invocations and at least 30s elapsed.                         *)
(***************************************************************************)
C8_Example ==
    /\ site = "fake"
    /\ conf.Pending = {"404"}
    /\ conf.Target = {"200"}
    /\ deadline = ExampleTimeout
    /\ ExampleAnswers
    => /\ Done
       /\ outcome = "success"
       /\ calls = 4
       /\ Len(trace) = 4
       /\ now >= 30

C8_Witness ==
    /\ site = "fake"
    /\ deadline = ExampleTimeout
    /\ ExampleAnswers
    /\ outcome = "success"
    /\ calls = 4

Classes == {"unclassified", "pending", "target", "terminal-error"}

TrailingNotFound ==
    LET other == { i \in 1..Len(trace) : ~IsNotFound(conf, trace[i].r) }
    IN Len(trace) - (IF other = {} THEN 0 ELSE CHOOSE i \in other : \A j \in other : j <= i)

\* the number of BeingDeleted conflicts at the end of the trace
TrailingBeingDeleted ==
    LET other == { i \in 1..Len(trace) :
                     ~(WasConflict(trace[i].resp) /\ trace[i].resp.beingDeleted) }
    IN Len(trace) - (IF other = {} THEN 0 ELSE CHOOSE i \in other : \A j \in other : j <= i)

TotalNotFound == Cardinality({ i \in 1..Len(trace) : IsNotFound(conf, trace[i].r) })

(***************************************************************************)
(* C10: the consecutive-not-found counter counts the "not found" answers   *)
(* in a row (at the share site: the BeingDeleted conflicts in a row) and   *)
(* is back at zero after any other pending answer, so the Not-Found-Limit  *)
(* failure is raised only on strictly more than notFoundLimit "not found"  *)
(* answers in a row, never on a total that was not consecutive.            *)
(***************************************************************************)
C10_ConsecutiveNotFound ==
    /\ notfoundTick = TrailingNotFound
    /\ site = "share" => notfoundTick = TrailingBeingDeleted
    /\ outcome = "notfound" => TrailingNotFound > NotFoundLimit(conf)

C10_Witness ==
    /\ site = "fake"
    /\ TotalNotFound > NotFoundLimit(conf)
    /\ notfoundTick >= 1
    /\ notfoundTick <= NotFoundLimit(conf)
    /\ outcome = "none"

(***************************************************************************)
(* One invocation at a time                                                *)
(***************************************************************************)
\* the invocations that were started and have not returned yet
InFlight == calls - Len(trace)

(***************************************************************************)
(* C11: within one poll session at most one invocation of the operation is *)
(* in flight at any time, and an invocation starts only when the previous  *)
(* one has returned and the sleep after it has finished: the session is    *)
(* neither waiting for an answer nor sleeping when it invokes.             *)
(***************************************************************************)
C11_OneInFlight ==
    /\ [](InFlight \in {0, 1} /\ (pc = "inflight" <=> InFlight = 1))
    /\ [][calls' # calls =>
            /\ calls' = calls + 1
            /\ InFlight = 0
            /\ pc = "ready"
            /\ calls >= 1 => now >= lastCall + Interval(conf)]_vars

C11_Witness == calls >= 3 /\ pc = "inflight" /\ InFlight = 1

(***************************************************************************)
(* Two share Create calls that run concurrently                            *)
(* (DataPlaneStorageShareWrapper.Create called from two goroutines).       *)
(* Each call keeps its timeout, its first answer, its StateChangeConf and  *)
(* the locals of its WaitForStateContext; time is the time since the call  *)
(* built its conf, measured by the call's own timer.                       *)
(***************************************************************************)
PairShortTimeout == 15
PairLongTimeout == 25

Sessions == {1, 2}

PairTimeouts == {PairShortTimeout, PairLongTimeout}

\* the StateChangeConf of all calls kept in one place
StateConfShared(i) == 1

\* stateConf is a local of the Create call that builds it
StateConfOf(i) == i

\* the locals of one call before it has done anything
SessionStart(t) ==
    [timeout |-> t, first |-> NoResp, pc |-> "start", now |-> 0, notfoundTick |-> 0,
     targetOccurence |-> 0, calls |-> 0, trace |-> <<>>, outcome |-> "none"]

\* the first w.client.Create of the call and what Create does with its answer
SessionCreate(s, c) ==
    IF ~c.err
    THEN [s EXCEPT !.first = c, !.pc = "done", !.outcome = "nil"]
    ELSE IF WasConflict(c) /\ c.beingDeleted
         THEN [s EXCEPT !.first = c, !.pc = "ready"]
         ELSE [s EXCEPT !.first = c, !.pc = "done", !.outcome = "error"]

SessionInvoke(s) == [s EXCEPT !.pc = "inflight", !.calls = s.calls + 1]

\* the refresh returns answer c after d seconds and is classified under conf cf
SessionReturn(cf, s, c, d) ==
    LET r == shareCreateRefreshFunc(c)
        k == Classify(cf, r)
        t == s.now + d
        nf == IF IsNotFound(cf, r) THEN s.notfoundTick + 1 ELSE 0
        occ == IF k = "target" THEN s.targetOccurence + 1 ELSE 0
        o == CASE r.panic -> "panic"
               [] ~r.panic /\ r.err -> "error"
               [] k = "target" /\ occ = TargetOccurences(cf) -> "success"
               [] k = "target" /\ occ # TargetOccurences(cf) -> "none"
               [] k = "pending" /\ nf > NotFoundLimit(cf) ->
                      IF t >= Deadline(cf) THEN "timeout" ELSE "notfound"
               [] k = "pending" /\ nf <= NotFoundLimit(cf) -> "none"
               [] OTHER -> "unexpected"
    IN [s EXCEPT !.now = t,
                 !.trace = Append(s.trace, [resp |-> c, d |-> d]),
                 !.notfoundTick = nf,
                 !.targetOccurence = occ,
                 !.outcome = o,
                 !.pc = IF o = "none" THEN "sleeping" ELSE "done"]

\* the sleep between two refreshes, cut short by the timeout of conf cf
SessionSleep(cf, s) ==
    IF s.now + Interval(cf) >= Deadline(cf)
    THEN [s EXCEPT !.now = Max(s.now, Deadline(cf)), !.pc = "done", !.outcome = "timeout"]
    ELSE [s EXCEPT !.now = s.now + Interval(cf), !.pc = "ready"]

PairInit ==
    /\ sess \in [Sessions -> { SessionStart(t) : t \in PairTimeouts }]
    /\ stateConf = [i \in Sessions |-> ShareConf(0)]
    /\ CrudIdle
    /\ IdIdle
    /\ ExistsIdle
    /\ LockIdle
    /\ site = "share"
    /\ deadline = 0
    /\ conf = ShareConf(0)
    /\ pc = "done"
    /\ now = 0
    /\ notfoundTick = 0
    /\ targetOccurence = 0
    /\ calls = 0
    /\ lastCall = 0
    /\ prevCall = 0
    /\ trace = <<>>
    /\ outcome = "none"
    /\ class = "unclassified"

pollVars == <<site, deadline, conf, pc, now, notfoundTick, targetOccurence, calls,
              lastCall, prevCall, trace, outcome, class>>

\* Create of call i up to the start of its wait
PairCreate(i) ==
    /\ sess[i].pc = "start"
    /\ \E c \in CreateResponses :
         /\ sess' = [sess EXCEPT ![i] = SessionCreate(sess[i], c)]
         /\ stateConf' = IF c.err /\ WasConflict(c) /\ c.beingDeleted
                         THEN [stateConf EXCEPT ![StateConfOf(i)] = ShareConf(sess[i].timeout)]
                         ELSE stateConf
    /\ UNCHANGED <<pollVars, crudVars, idVars, existsVars, lockVars>>

PairInvoke(i) ==
    /\ sess[i].pc = "ready"
    /\ sess' = [sess EXCEPT ![i] = SessionInvoke(sess[i])]
    /\ UNCHANGED <<stateConf, pollVars, crudVars, idVars, existsVars, lockVars>>

PairReturn(i) ==
    /\ sess[i].pc = "inflight"
    /\ \E c \in CreateResponses, d \in CallDurations :
         sess' = [sess EXCEPT ![i] = SessionReturn(stateConf[StateConfOf(i)], sess[i], c, d)]
    /\ UNCHANGED <<stateConf, pollVars, crudVars, idVars, existsVars, lockVars>>

PairSleep(i) ==
    /\ sess[i].pc = "sleeping"
    /\ sess' = [sess EXCEPT ![i] = SessionSleep(stateConf[StateConfOf(i)], sess[i])]
    /\ UNCHANGED <<stateConf, pollVars, crudVars, idVars, existsVars, lockVars>>

PairNext ==
    \E i \in Sessions : PairCreate(i) \/ PairInvoke(i) \/ PairReturn(i) \/ PairSleep(i)

PairSpec == PairInit /\ [][PairNext]_vars

\* the call run alone: its wait replayed against the answers it was given,
\* under the conf the call itself builds
RECURSIVE Replay(_, _, _)
Replay(cf, s, answers) ==
    IF answers = <<>> THEN s
    ELSE IF s.pc # "ready" THEN [s EXCEPT !.outcome = "diverged"]
    ELSE LET r == SessionReturn(cf, SessionInvoke(s), Head(answers).resp, Head(answers).d)
             n == IF r.pc = "sleeping" THEN SessionSleep(cf, r) ELSE r
         IN Replay(cf, n, Tail(answers))

RunAlone(s) ==
    Replay(ShareConf(s.timeout), SessionCreate(SessionStart(s.timeout), s.first), s.trace)

SameAsAlone(i) ==
    LET s == sess[i]
        a == RunAlone(s)
    IN s.pc # "start" =>
         /\ a.outcome # "diverged"
         /\ s.notfoundTick = a.notfoundTick
         /\ s.targetOccurence = a.targetOccurence
         /\ s.calls = a.calls + (IF s.pc = "inflight" THEN 1 ELSE 0)
         /\ s.pc \in {"ready", "inflight"} => a.pc = "ready"
         /\ s.pc = "done" => s.outcome = a.outcome /\ s.now = a.now

(***************************************************************************)
(* C12: two poll sessions that run concurrently share no mutable state:    *)
(* under every interleaving the counters, the number of invocations and    *)
(* the final outcome of each session are those of the session run alone    *)
(* against the same sequence of answers.                                   *)
(***************************************************************************)
C12_SessionsIndependent == \A i \in Sessions : SameAsAlone(i)

C12_Witness ==
    /\ sess[1].timeout = PairLongTimeout
    /\ sess[2].timeout = PairShortTimeout
    /\ sess[2].outcome = "timeout"
    /\ sess[1].calls = 3
    /\ sess[1].notfoundTick = 2
    /\ sess[1].pc = "inflight"

(***************************************************************************)
(* The resource functions (create, read, update, delete) and the requests  *)
(* they send.  A function is an operator from the answers it receives to   *)
(* its outcome: the requests it sent in their order, the ID it leaves in   *)
(* the resource data, and what it returned ("nil", "error",                *)
(* "importAsExists", or "panic" for a nil dereference).                    *)
(***************************************************************************)
Out(reqs, id, ret) == [requests |-> reqs, id |-> id, ret |-> ret]

\* FindAccount returns an error, no account (nil), or the account
Accounts == {"error", "none", "found"}

\* requests that resolve the storage account (resource manager)
LookupRequests == {"FindAccount", "Accounts.GetProperties"}

\* requests to the resource manager for virtual machines and disks
ComputeRequests == {"VirtualMachines.Get", "Disks.Get", "CreateOrUpdateThenPoll"}

\* requests that create or delete something remote
MutatingRequests == {"Create", "Delete", "CreateOrUpdateThenPoll"}

\* a request to the storage data-plane endpoint
IsDataPlane(q) == q \notin LookupRequests \cup ComputeRequests

\* what a wrapper method hands back: a value, an error, or a crash
Wrapped(v, e) == [val |-> v, err |-> e, panic |-> FALSE]

WrappedPanic == [val |-> "nil", err |-> FALSE, panic |-> TRUE]

WasNotFound(resp) == resp.hasResp /\ resp.status = StatusNotFound

(***************************************************************************)
(* azurerm_storage_queue                                                   *)
(***************************************************************************)
\* DataPlaneStorageQueueWrapper.Exists
queueExists(resp) ==
    IF resp.err
    THEN IF ~resp.hasResp THEN WrappedPanic
         ELSE IF resp.status = StatusNotFound THEN Wrapped("false", FALSE)
         ELSE Wrapped("nil", TRUE)
    ELSE Wrapped("true", FALSE)

\* DataPlaneStorageQueueWrapper.Get
queueGet(resp) ==
    IF resp.err
    THEN IF ~resp.hasResp THEN WrappedPanic
         ELSE IF resp.status = StatusNotFound THEN Wrapped("nil", FALSE)
         ELSE Wrapped("nil", TRUE)
    ELSE Wrapped("props", FALSE)

\* resourceStorageQueueRead, entered with sent requests reqs and ID id
resourceStorageQueueRead(reqs, id, a, g) ==
    LET r1 == Append(reqs, "FindAccount")
        r2 == Append(r1, "Get")
        queue == queueGet(g)
    IN IF a = "error" THEN Out(r1, id, "error")
       ELSE IF a = "none" THEN Out(r1, "", "nil")
       ELSE IF queue.panic THEN Out(r2, id, "panic")
       ELSE IF queue.err THEN Out(r2, id, "error")
       ELSE IF queue.val = "nil" THEN Out(r2, "", "nil")
       ELSE Out(r2, id, "nil")

\* resourceStorageQueueCreate
resourceStorageQueueCreate(a, e, c, a2, g) ==
    LET r1 == <<"FindAccount">>
        r2 == <<"FindAccount", "Exists">>
        r3 == <<"FindAccount", "Exists", "Create">>
        exists == queueExists(e)
    IN IF a # "found" THEN Out(r1, "", "error")
       ELSE IF exists.panic THEN Out(r2, "", "panic")
       ELSE IF exists.err THEN Out(r2, "", "error")
       ELSE IF exists.val = "true" THEN Out(r2, "", "importAsExists")
       ELSE IF c.err THEN Out(r3, "", "error")
       ELSE resourceStorageQueueRead(r3, "id", a2, g)

\* resourceStorageQueueUpdate
resourceStorageQueueUpdate(a, u, a2, g) ==
    LET r1 == <<"FindAccount">>
        r2 == <<"FindAccount", "UpdateMetaData">>
    IN IF a # "found" THEN Out(r1, "id", "error")
       ELSE IF u.err THEN Out(r2, "id", "error")
       ELSE resourceStorageQueueRead(r2, "id", a2, g)

\* resourceStorageQueueDelete
resourceStorageQueueDelete(a, del) ==
    LET r1 == <<"FindAccount">>
        r2 == <<"FindAccount", "Delete">>
    IN IF a = "error" THEN Out(r1, "id", "error")
       ELSE IF a = "none" THEN Out(r1, "", "nil")
       ELSE IF del.err THEN Out(r2, "id", "error")
       ELSE Out(r2, "id", "nil")

(***************************************************************************)
(* azurerm_storage_share.  A function that has reached its wait hands back *)
(* "wait"; the part after the wait is a function of the wait's outcome.    *)
(***************************************************************************)
\* DataPlaneStorageShareWrapper.Exists
shareExists(resp) ==
    IF resp.err
    THEN IF WasNotFound(resp) THEN Wrapped("false", FALSE) ELSE Wrapped("nil", TRUE)
    ELSE Wrapped("true", FALSE)

\* resourceStorageShareRead; DataPlaneStorageShareWrapper.Get sends
\* GetProperties (g) and then GetACL (acl)
resourceStorageShareRead(reqs, id, a, g, acl) ==
    LET r1 == Append(reqs, "FindAccount")
        r2 == Append(r1, "Get")
        r3 == Append(r2, "GetACL")
    IN IF a = "error" THEN Out(r1, id, "error")
       ELSE IF a = "none" THEN Out(r1, "", "nil")
       ELSE IF g.err /\ WasNotFound(g) THEN Out(r2, "", "nil")
       ELSE IF g.err THEN Out(r2, id, "error")
       ELSE IF acl.err THEN Out(r3, id, "error")
       ELSE Out(r3, id, "nil")

\* resourceStorageShareCreate from the return of client.Create without error
resourceStorageShareCreateEnd(reqs, u, a2, g, acl) ==
    LET r1 == Append(reqs, "UpdateACLs")
    IN IF u.err THEN Out(r1, "id", "error")
       ELSE resourceStorageShareRead(r1, "id", a2, g, acl)

\* resourceStorageShareCreate up to the wait inside client.Create
resourceStorageShareCreate(a, kindOk, e, c, u, a2, g, acl) ==
    LET r1 == <<"FindAccount">>
        r2 == <<"FindAccount", "Exists">>
        r3 == <<"FindAccount", "Exists", "Create">>
        exists == shareExists(e)
    IN IF a # "found" THEN Out(r1, "", "error")
       ELSE IF ~kindOk THEN Out(r1, "", "error")
       ELSE IF exists.err THEN Out(r2, "", "error")
       ELSE IF exists.val = "true" THEN Out(r2, "", "importAsExists")
       ELSE IF ~c.err THEN resourceStorageShareCreateEnd(r3, u, a2, g, acl)
       ELSE IF WasConflict(c) /\ c.beingDeleted THEN Out(r3, "", "wait")
       ELSE Out(r3, "", "error")

\* resourceStorageShareCreate from the end of the wait with outcome o
resourceStorageShareCreateWaited(reqs, o, u, a2, g, acl) ==
    IF o = "success" THEN resourceStorageShareCreateEnd(reqs, u, a2, g, acl)
    ELSE IF o = "panic" THEN Out(reqs, "", "panic")
    ELSE Out(reqs, "", "error")

\* the attributes of a share that Update sends when they have changed
ShareAttributes == <<"UpdateQuota", "UpdateMetaData", "UpdateACLs", "UpdateTier">>

\* resourceStorageShareUpdate: ch are the changed attributes, f is the
\* position of the first update that fails (0: none fails)
resourceStorageShareUpdate(a, ch, f, a2, g, acl) ==
    LET InCh(q) == q \in ch
        ups == SelectSeq(ShareAttributes, InCh)
        r1 == <<"FindAccount">>
    IN IF a # "found" THEN Out(r1, "id", "error")
       ELSE IF f >= 1 /\ f <= Len(ups) THEN Out(r1 \o SubSeq(ups, 1, f), "id", "error")
       ELSE resourceStorageShareRead(r1 \o ups, "id", a2, g, acl)

\* resourceStorageShareDelete
resourceStorageShareDelete(a, del) ==
    LET r1 == <<"FindAccount">>
        r2 == <<"FindAccount", "Delete">>
    IN IF a # "found" THEN Out(r1, "id", "error")
       ELSE IF del.err THEN Out(r2, "id", "error")
       ELSE Out(r2, "id", "nil")

(***************************************************************************)
(* The container wrappers' Create, called on its own.                      *)
(***************************************************************************)
\* DataPlaneStorageContainerWrapper.Create (shim/containers_data_plane.go)
containerCreate(c) ==
    IF ~c.err THEN Out(<<"Create">>, "", "nil")
    ELSE IF WasConflict(c) /\ c.beingDeleted THEN Out(<<"Create">>, "", "wait")
    ELSE Out(<<"Create">>, "", "error")

\* DataPlaneStorageContainerWrapper.Create (older copy): reads the status of
\* a response that may be nil
containerCreateOld(c) ==
    IF ~c.err THEN Out(<<"Create">>, "", "nil")
    ELSE IF ~c.hasResp THEN Out(<<"Create">>, "", "panic")
    ELSE IF c.status = StatusConflict /\ c.beingDeleted THEN Out(<<"Create">>, "", "wait")
    ELSE Out(<<"Create">>, "", "error")

\* either wrapper from the end of the wait with outcome o
containerCreateWaited(reqs, o) ==
    IF o = "success" THEN Out(reqs, "", "nil")
    ELSE IF o = "panic" THEN Out(reqs, "", "panic")
    ELSE Out(reqs, "", "error")

(***************************************************************************)
(* azurerm_storage_share_directory                                         *)
(***************************************************************************)
\* resourceStorageShareDirectoryRead
resourceStorageShareDirectoryRead(reqs, id, a, g) ==
    LET r1 == Append(reqs, "FindAccount")
        r2 == Append(r1, "Get")
    IN IF a = "error" THEN Out(r1, id, "error")
       ELSE IF a = "none" THEN Out(r1, "", "nil")
       ELSE IF g.err THEN Out(r2, id, "error")
       ELSE Out(r2, id, "nil")

\* resourceStorageShareDirectoryCreate that waits before it has created
resourceStorageShareDirectoryCreateWaitFirst(a, e, c) ==
    LET r1 == <<"FindAccount">>
        r2 == <<"FindAccount", "Get">>
    IN IF a # "found" THEN Out(r1, "", "error")
       ELSE IF e.err /\ ~WasNotFound(e) THEN Out(r2, "", "error")
       ELSE IF ~WasNotFound(e) THEN Out(r2, "", "importAsExists")
       ELSE Out(r2, "", "wait")

\* resourceStorageShareDirectoryCreate up to its wait
resourceStorageShareDirectoryCreate(a, e, c) ==
    LET r1 == <<"FindAccount">>
        r2 == <<"FindAccount", "Get">>
        r3 == <<"FindAccount", "Get", "Create">>
    IN IF a # "found" THEN Out(r1, "", "error")
       ELSE IF e.err /\ ~WasNotFound(e) THEN Out(r2, "", "error")
       ELSE IF ~WasNotFound(e) THEN Out(r2, "", "importAsExists")
       ELSE IF c.err THEN Out(r3, "", "error")
       ELSE Out(r3, "", "wait")

\* resourceStorageShareDirectoryCreate from the end of the wait with outcome o
resourceStorageShareDirectoryCreateWaited(reqs, o, a2, g) ==
    IF o = "success" THEN resourceStorageShareDirectoryRead(reqs, "id", a2, g)
    ELSE IF o = "panic" THEN Out(reqs, "", "panic")
    ELSE Out(reqs, "", "error")

\* resourceStorageShareDirectoryUpdate
resourceStorageShareDirectoryUpdate(a, u, a2, g) ==
    LET r1 == <<"FindAccount">>
        r2 == <<"FindAccount", "SetMetaData">>
    IN IF a # "found" THEN Out(r1, "id", "error")
       ELSE IF u.err THEN Out(r2, "id", "error")
       ELSE resourceStorageShareDirectoryRead(r2, "id", a2, g)

\* resourceStorageShareDirectoryDelete
resourceStorageShareDirectoryDelete(a, del) ==
    LET r1 == <<"FindAccount">>
        r2 == <<"FindAccount", "Delete">>
    IN IF a # "found" THEN Out(r1, "id", "error")
       ELSE IF del.err THEN Out(r2, "id", "error")
       ELSE Out(r2, "id", "nil")

(***************************************************************************)
(* azurerm_storage_share_file                                              *)
(***************************************************************************)
\* what DataPlaneStorageShareWrapper.Get hands back for the share of a file:
\* an error, no share (nil), or its properties
ShareGets == {"error", "none", "props"}

\* the file named by "source": not given, readable, or unusable
Sources == {"none", "ok", "bad"}

\* resourceStorageShareFileRead; hl: the properties hold a content length
resourceStorageShareFileRead(reqs, id, a, sh, g, hl) ==
    LET r1 == Append(reqs, "FindAccount")
        r2 == Append(r1, "Shares.Get")
        r3 == Append(r2, "GetProperties")
    IN IF a = "error" THEN Out(r1, id, "error")
       ELSE IF a = "none" THEN Out(r1, "", "nil")
       ELSE IF sh = "error" THEN Out(r2, id, "error")
       ELSE IF sh = "none" THEN Out(r2, "", "nil")
       ELSE IF g.err THEN Out(r3, "", "nil")
       ELSE IF ~hl THEN Out(r3, id, "error")
       ELSE Out(r3, id, "nil")

\* resourceStorageShareFileCreate
resourceStorageShareFileCreate(a, sh, e, source, c, put, a2, sh2, g, hl) ==
    LET r1 == <<"FindAccount">>
        r2 == <<"FindAccount", "Shares.Get">>
        r3 == <<"FindAccount", "Shares.Get", "GetProperties">>
        r4 == Append(r3, "Create")
        r5 == Append(r4, "PutFile")
    IN IF a # "found" THEN Out(r1, "", "error")
       ELSE IF sh # "props" THEN Out(r2, "", "error")
       ELSE IF e.err /\ ~e.hasResp THEN Out(r3, "", "panic")
       ELSE IF e.err /\ e.status # StatusNotFound THEN Out(r3, "", "error")
       ELSE IF e.status # StatusNotFound THEN Out(r3, "", "importAsExists")
       ELSE IF source = "bad" THEN Out(r3, "", "error")
       ELSE IF c.err THEN Out(r4, "", "error")
       ELSE IF source = "ok" /\ put.err THEN Out(r5, "", "error")
       ELSE resourceStorageShareFileRead(IF source = "ok" THEN r5 ELSE r4,
                                         "id", a2, sh2, g, hl)

\* resourceStorageShareFileUpdate; ch: a content attribute has changed
resourceStorageShareFileUpdate(a, sh, e, ch, u, a2, sh2, g, hl) ==
    LET r1 == <<"FindAccount">>
        r2 == <<"FindAccount", "Shares.Get">>
        r3 == <<"FindAccount", "Shares.Get", "GetProperties">>
        r4 == Append(r3, "SetProperties")
    IN IF a # "found" THEN Out(r1, "id", "error")
       ELSE IF sh # "props" THEN Out(r2, "id", "error")
       ELSE IF e.err /\ ~e.hasResp THEN Out(r3, "id", "panic")
       ELSE IF e.err /\ e.status # StatusNotFound THEN Out(r3, "id", "error")
       ELSE IF ch /\ u.err THEN Out(r4, "id", "error")
       ELSE resourceStorageShareFileRead(IF ch THEN r4 ELSE r3, "id", a2, sh2, g, hl)

\* resourceStorageShareFileDelete
resourceStorageShareFileDelete(a, del) ==
    LET r1 == <<"FindAccount">>
        r2 == <<"FindAccount", "Delete">>
    IN IF a # "found" THEN Out(r1, "id", "error")
       ELSE IF del.err THEN Out(r2, "id", "error")
       ELSE Out(r2, "id", "nil")

(***************************************************************************)
(* azurerm_storage_data_lake_gen2_filesystem.  The account is looked up    *)
(* with AccountsClient.GetProperties: a is "none" when it answers 404.     *)
(* hns: the account has the hierarchical namespace; acl: an ace list is    *)
(* configured; og: an owner or a group is configured.                      *)
(***************************************************************************)
\* resourceStorageDataLakeGen2FileSystemRead
resourceStorageDataLakeGen2FileSystemRead(reqs, id, a, hns, g) ==
    LET r1 == Append(reqs, "Accounts.GetProperties")
        r2 == Append(r1, "GetProperties")
        r3 == Append(r2, "Paths.GetProperties")
    IN IF a = "none" THEN Out(r1, "", "nil")
       ELSE IF a = "error" THEN Out(r1, id, "error")
       ELSE IF g.err /\ ~g.hasResp THEN Out(r2, id, "panic")
       ELSE IF g.err /\ g.status = StatusNotFound THEN Out(r2, "", "nil")
       ELSE IF g.err THEN Out(r2, id, "error")
       ELSE IF hns THEN Out(r3, id, "nil")
       ELSE Out(r2, id, "nil")

\* resourceStorageDataLakeGen2FileSystemCreate
resourceStorageDataLakeGen2FileSystemCreate(a, hns, acl, og, e, c, sa, a2, g) ==
    LET r1 == <<"Accounts.GetProperties">>
        r2 == <<"Accounts.GetProperties", "GetProperties">>
        r3 == <<"Accounts.GetProperties", "GetProperties", "Create">>
        r4 == Append(r3, "SetAccessControl")
    IN IF a # "found" THEN Out(r1, "", "error")
       ELSE IF acl /\ ~hns THEN Out(r1, "", "error")
       ELSE IF e.err /\ ~e.hasResp THEN Out(r2, "", "panic")
       ELSE IF e.err /\ e.status # StatusNotFound THEN Out(r2, "", "error")
       ELSE IF e.status # StatusNotFound THEN Out(r2, "", "importAsExists")
       ELSE IF c.err THEN Out(r3, "", "error")
       ELSE IF (acl \/ og) /\ sa.err THEN Out(r4, "", "error")
       ELSE resourceStorageDataLakeGen2FileSystemRead(
                IF acl \/ og THEN r4 ELSE r3, "id", a2, hns, g)

\* resourceStorageDataLakeGen2FileSystemUpdate
resourceStorageDataLakeGen2FileSystemUpdate(a, hns, acl, og, u, sa, a2, g) ==
    LET r1 == <<"Accounts.GetProperties">>
        r2 == <<"Accounts.GetProperties", "SetProperties">>
        r3 == Append(r2, "SetAccessControl")
    IN IF a # "found" THEN Out(r1, "id", "error")
       ELSE IF acl /\ ~hns THEN Out(r1, "id", "error")
       ELSE IF u.err THEN Out(r2, "id", "error")
       ELSE IF (acl \/ og) /\ sa.err THEN Out(r3, "id", "error")
       ELSE resourceStorageDataLakeGen2FileSystemRead(
                IF acl \/ og THEN r3 ELSE r2, "id", a2, hns, g)

\* resourceStorageDataLakeGen2FileSystemDelete: no lookup of the account
resourceStorageDataLakeGen2FileSystemDelete(del) ==
    IF del.err /\ ~del.hasResp THEN Out(<<"Delete">>, "id", "panic")
    ELSE IF del.err /\ del.status # StatusNotFound THEN Out(<<"Delete">>, "id", "error")
    ELSE Out(<<"Delete">>, "id", "nil")

(***************************************************************************)
(* azurerm_virtual_machine_data_disk_attachment                            *)
(***************************************************************************)
\* what VirtualMachinesClient.Get hands back: an error, a response without
\* a model, a model without properties, or a model with its properties
Machines == {"error", "noModel", "noProperties", "full"}

\* what retrieveDataDiskAttachmentManagedDisk hands back
ManagedDisks == {"error", "noSku", "disk"}

\* the disk in the data-disk list as Read finds it, or the failed Get
Attachments == {"error", "gone", "attached"}

\* resourceVirtualMachineDataDiskAttachmentRead
resourceVirtualMachineDataDiskAttachmentRead(reqs, id, rd) ==
    LET r1 == Append(reqs, "VirtualMachines.Get")
    IN IF rd = "error" THEN Out(r1, id, "error")
       ELSE IF rd = "gone" THEN Out(r1, "", "nil")
       ELSE Out(r1, id, "nil")

\* the check of the fetched machine as Delete makes it
ModelOrPropertiesNil(vm) == vm = "noModel" \/ vm = "noProperties"

\* the check of the fetched machine as CreateUpdate makes it
ModelAndPropertiesPresent(vm) == vm # "noModel" /\ vm # "noProperties"

\* resourceVirtualMachineDataDiskAttachmentCreateUpdate; id is the ID before
\* the call, isNew is d.IsNewResource(), attached: the disk is in the list
resourceVirtualMachineDataDiskAttachmentCreateUpdate(id, isNew, vm, md, attached, cu, rd) ==
    LET r1 == <<"VirtualMachines.Get">>
        r2 == <<"VirtualMachines.Get", "Disks.Get">>
        r3 == <<"VirtualMachines.Get", "Disks.Get", "CreateOrUpdateThenPoll">>
    IN IF vm = "error" THEN Out(r1, id, "error")
       ELSE IF ModelAndPropertiesPresent(vm) THEN Out(r1, id, "wasNil")
       ELSE IF md = "error" THEN Out(r2, id, "error")
       ELSE IF md = "noSku" THEN Out(r2, id, "error")
       ELSE IF vm = "noModel" \/ vm = "noProperties" THEN Out(r2, id, "panic")
       ELSE IF isNew /\ attached THEN Out(r2, id, "importAsExists")
       ELSE IF ~isNew /\ ~attached THEN Out(r2, id, "error")
       ELSE IF cu.err THEN Out(r3, id, "error")
       ELSE resourceVirtualMachineDataDiskAttachmentRead(r3, "id", rd)

\* resourceVirtualMachineDataDiskAttachmentDelete
resourceVirtualMachineDataDiskAttachmentDelete(vm, cu) ==
    LET r1 == <<"VirtualMachines.Get">>
        r2 == <<"VirtualMachines.Get", "CreateOrUpdateThenPoll">>
    IN IF vm = "error" THEN Out(r1, "id", "error")
       ELSE IF ModelOrPropertiesNil(vm) THEN Out(r1, "id", "wasNil")
       ELSE IF cu.err THEN Out(r2, "id", "error")
       ELSE Out(r2, "id", "nil")

(***************************************************************************)
(* One run of one resource function.                                       *)
(***************************************************************************)
Resources ==
    {"queue", "share", "shareDirectory", "shareFile", "dataLake", "dataDisk",
     "container", "containerOld"}

\* the container wrappers are modelled by their Create alone
Operations(res) ==
    IF res \in {"container", "containerOld"}
    THEN {"create"}
    ELSE {"create", "read", "update", "delete"}

\* the place of request q among the requests reqs, 0 when it was not sent
RECURSIVE IndexOf(_, _)
IndexOf(reqs, q) ==
    IF reqs = <<>> THEN 0
    ELSE IF Head(reqs) = q THEN 1
    ELSE IF IndexOf(Tail(reqs), q) = 0 THEN 0
    ELSE 1 + IndexOf(Tail(reqs), q)

Sent(reqs, q) == IndexOf(reqs, q) > 0

\* the requests with which a create looks for the resource it is to create
ExistenceRequests == {"Exists", "Get", "GetProperties"}

\* the answers a function has received, "unused" for a request it never sent:
\* a the account lookup, e the check for an existing resource, c the first
\* Create, vm the fetched machine, att whether its list holds the disk
Observed(reqs, a, e, c, vm, att) ==
    LET create == IndexOf(reqs, "Create")
        looked == \E i \in 1..Len(reqs) :
                     /\ reqs[i] \in ExistenceRequests
                     /\ create = 0 \/ i < create
    IN [account |-> IF \E q \in LookupRequests : Sent(reqs, q) THEN a ELSE "unused",
        existing |-> IF operation = "create" /\ looked THEN e ELSE NoResp,
        created |-> IF operation = "create" /\ create > 0 THEN c ELSE NoResp,
        machine |-> IF Sent(reqs, "VirtualMachines.Get") THEN vm ELSE "unused",
        attached |-> Sent(reqs, "VirtualMachines.Get") /\ vm = "full" /\ att]

\* the poll session before any wait has begun
PollIdle ==
    /\ site = "none"
    /\ deadline = 0
    /\ conf = ShareConf(0)
    /\ pc = "idle"
    /\ now = 0
    /\ notfoundTick = 0
    /\ targetOccurence = 0
    /\ calls = 0
    /\ lastCall = 0
    /\ prevCall = 0
    /\ trace = <<>>
    /\ outcome = "none"
    /\ class = "unclassified"

\* the call site builds its StateChangeConf and calls WaitForStateContext
StartWait(s) ==
    /\ site' = s
    /\ deadline' \in SiteTimeouts(s) \ {LongTimeout}
    /\ conf' \in SiteConfs(s, deadline')
    /\ pc' = "ready"
    /\ UNCHANGED <<now, notfoundTick, targetOccurence, calls, lastCall, prevCall,
                   trace, outcome, class>>

\* the function is at the start
Starts(res, op) == resource = res /\ operation = op /\ at = "start"

\* the wait of the function has ended
Waited(res) == resource = res /\ operation = "create" /\ at = "waiting" /\ pc = "done"

\* the function goes as far as outcome o says: to its wait or to its return
Proceeds(o, obs) ==
    /\ requests' = o.requests
    /\ resourceId' = o.id
    /\ observed' = obs
    /\ IF o.ret = "wait"
       THEN /\ at' = "waiting"
            /\ returned' = returned
            /\ StartWait(resource)
       ELSE /\ at' = "returned"
            /\ returned' = o.ret
            /\ UNCHANGED pollVars
    /\ UNCHANGED <<resource, operation, pairVars, idVars, existsVars, lockVars>>

\* the function returns after its wait with outcome o
Returns(o) ==
    /\ requests' = o.requests
    /\ resourceId' = o.id
    /\ at' = "returned"
    /\ returned' = o.ret
    /\ UNCHANGED <<resource, operation, observed, pairVars, pollVars, idVars, existsVars, lockVars>>

CrudInit ==
    /\ resource \in Resources
    /\ operation \in Operations(resource)
    /\ at = "start"
    /\ requests = <<>>
    /\ resourceId = IF operation = "create" THEN "" ELSE "id"
    /\ returned = "none"
    /\ observed = <<>>
    /\ PollIdle
    /\ stateConf = <<>>
    /\ sess = <<>>
    /\ IdIdle
    /\ ExistsIdle
    /\ LockIdle

\* answers left out of what a function observed
NoMachine == "unused"

QueueCreate ==
    /\ Starts("queue", "create")
    /\ \E a, a2 \in Accounts, e, g \in GetResponses, c \in CreateResponses :
         LET o == resourceStorageQueueCreate(a, e, c, a2, g)
         IN Proceeds(o, Observed(o.requests, a, e, c, NoMachine, FALSE))

QueueRead ==
    /\ Starts("queue", "read")
    /\ \E a \in Accounts, g \in GetResponses :
         LET o == resourceStorageQueueRead(<<>>, "id", a, g)
         IN Proceeds(o, Observed(o.requests, a, NoResp, NoResp, NoMachine, FALSE))

QueueUpdate ==
    /\ Starts("queue", "update")
    /\ \E a, a2 \in Accounts, u, g \in GetResponses :
         LET o == resourceStorageQueueUpdate(a, u, a2, g)
         IN Proceeds(o, Observed(o.requests, a, NoResp, NoResp, NoMachine, FALSE))

QueueDelete ==
    /\ Starts("queue", "delete")
    /\ \E a \in Accounts, del \in GetResponses :
         LET o == resourceStorageQueueDelete(a, del)
         IN Proceeds(o, Observed(o.requests, a, NoResp, NoResp, NoMachine, FALSE))

ShareCreate ==
    /\ Starts("share", "create")
    /\ \E a, a2 \in Accounts, kindOk \in BOOLEAN, e, u, g, acl \in GetResponses,
          c \in CreateResponses :
         LET o == resourceStorageShareCreate(a, kindOk, e, c, u, a2, g, acl)
         IN Proceeds(o, Observed(o.requests, a, e, c, NoMachine, FALSE))

ShareCreateWaited ==
    /\ Waited("share")
    /\ \E a2 \in Accounts, u, g, acl \in GetResponses :
         Returns(resourceStorageShareCreateWaited(requests, outcome, u, a2, g, acl))

ShareRead ==
    /\ Starts("share", "read")
    /\ \E a \in Accounts, g, acl \in GetResponses :
         LET o == resourceStorageShareRead(<<>>, "id", a, g, acl)
         IN Proceeds(o, Observed(o.requests, a, NoResp, NoResp, NoMachine, FALSE))

ShareUpdate ==
    /\ Starts("share", "update")
    /\ \E a, a2 \in Accounts, ch \in SUBSET {"UpdateQuota", "UpdateMetaData", "UpdateACLs", "UpdateTier"},
          f \in 0..Len(ShareAttributes), g, acl \in GetResponses :
         LET o == resourceStorageShareUpdate(a, ch, f, a2, g, acl)
         IN Proceeds(o, Observed(o.requests, a, NoResp, NoResp, NoMachine, FALSE))

ShareDelete ==
    /\ Starts("share", "delete")
    /\ \E a \in Accounts, del \in GetResponses :
         LET o == resourceStorageShareDelete(a, del)
         IN Proceeds(o, Observed(o.requests, a, NoResp, NoResp, NoMachine, FALSE))

ShareDirectoryCreate ==
    /\ Starts("shareDirectory", "create")
    /\ \E a \in Accounts, e \in GetResponses, c \in CreateResponses :
         LET o == resourceStorageShareDirectoryCreate(a, e, c)
         IN Proceeds(o, Observed(o.requests, a, e, c, NoMachine, FALSE))

ShareDirectoryCreateWaited ==
    /\ Waited("shareDirectory")
    /\ \E a2 \in Accounts, g \in GetResponses :
         Returns(resourceStorageShareDirectoryCreateWaited(requests, outcome, a2, g))

ShareDirectoryRead ==
    /\ Starts("shareDirectory", "read")
    /\ \E a \in Accounts, g \in GetResponses :
         LET o == resourceStorageShareDirectoryRead(<<>>, "id", a, g)
         IN Proceeds(o, Observed(o.requests, a, NoResp, NoResp, NoMachine, FALSE))

ShareDirectoryUpdate ==
    /\ Starts("shareDirectory", "update")
    /\ \E a, a2 \in Accounts, u, g \in GetResponses :
         LET o == resourceStorageShareDirectoryUpdate(a, u, a2, g)
         IN Proceeds(o, Observed(o.requests, a, NoResp, NoResp, NoMachine, FALSE))

ShareDirectoryDelete ==
    /\ Starts("shareDirectory", "delete")
    /\ \E a \in Accounts, del \in GetResponses :
         LET o == resourceStorageShareDirectoryDelete(a, del)
         IN Proceeds(o, Observed(o.requests, a, NoResp, NoResp, NoMachine, FALSE))

ShareFileCreate ==
    /\ Starts("shareFile", "create")
    /\ \E a, a2 \in Accounts, sh, sh2 \in ShareGets, e, put, g \in GetResponses,
          source \in Sources, c \in CreateResponses, hl \in BOOLEAN :
         LET o == resourceStorageShareFileCreate(a, sh, e, source, c, put, a2, sh2, g, hl)
         IN Proceeds(o, Observed(o.requests, a, e, c, NoMachine, FALSE))

ShareFileRead ==
    /\ Starts("shareFile", "read")
    /\ \E a \in Accounts, sh \in ShareGets, g \in GetResponses, hl \in BOOLEAN :
         LET o == resourceStorageShareFileRead(<<>>, "id", a, sh, g, hl)
         IN Proceeds(o, Observed(o.requests, a, NoResp, NoResp, NoMachine, FALSE))

ShareFileUpdate ==
    /\ Starts("shareFile", "update")
    /\ \E a, a2 \in Accounts, sh, sh2 \in ShareGets, e, u, g \in GetResponses,
          ch, hl \in BOOLEAN :
         LET o == resourceStorageShareFileUpdate(a, sh, e, ch, u, a2, sh2, g, hl)
         IN Proceeds(o, Observed(o.requests, a, NoResp, NoResp, NoMachine, FALSE))

ShareFileDelete ==
    /\ Starts("shareFile", "delete")
    /\ \E a \in Accounts, del \in GetResponses :
         LET o == resourceStorageShareFileDelete(a, del)
         IN Proceeds(o, Observed(o.requests, a, NoResp, NoResp, NoMachine, FALSE))

DataLakeCreate ==
    /\ Starts("dataLake", "create")
    /\ \E a, a2 \in Accounts, hns, acl, og \in BOOLEAN, e, sa, g \in GetResponses,
          c \in CreateResponses :
         LET o == resourceStorageDataLakeGen2FileSystemCreate(a, hns, acl, og, e, c, sa, a2, g)
         IN Proceeds(o, Observed(o.requests, a, e, c, NoMachine, FALSE))

DataLakeRead ==
    /\ Starts("dataLake", "read")
    /\ \E a \in Accounts, hns \in BOOLEAN, g \in GetResponses :
         LET o == resourceStorageDataLakeGen2FileSystemRead(<<>>, "id", a, hns, g)
         IN Proceeds(o, Observed(o.requests, a, NoResp, NoResp, NoMachine, FALSE))

DataLakeUpdate ==
    /\ Starts("dataLake", "update")
    /\ \E a, a2 \in Accounts, hns, acl, og \in BOOLEAN, u, sa, g \in GetResponses :
         LET o == resourceStorageDataLakeGen2FileSystemUpdate(a, hns, acl, og, u, sa, a2, g)
         IN Proceeds(o, Observed(o.requests, a, NoResp, NoResp, NoMachine, FALSE))

DataLakeDelete ==
    /\ Starts("dataLake", "delete")
    /\ \E del \in GetResponses :
         LET o == resourceStorageDataLakeGen2FileSystemDelete(del)
         IN Proceeds(o, Observed(o.requests, "unused", NoResp, NoResp, NoMachine, FALSE))

DataDiskCreateUpdate ==
    /\ resource = "dataDisk" /\ operation \in {"create", "update"} /\ at = "start"
    /\ \E vm \in Machines, md \in ManagedDisks, att \in BOOLEAN, cu \in GetResponses,
          rd \in Attachments :
         LET o == resourceVirtualMachineDataDiskAttachmentCreateUpdate(
                      resourceId, operation = "create", vm, md, att, cu, rd)
         IN Proceeds(o, Observed(o.requests, "unused", NoResp, NoResp, vm, att))

DataDiskRead ==
    /\ Starts("dataDisk", "read")
    /\ \E rd \in Attachments :
         LET o == resourceVirtualMachineDataDiskAttachmentRead(<<>>, "id", rd)
         IN Proceeds(o, Observed(o.requests, "unused", NoResp, NoResp, rd, FALSE))

DataDiskDelete ==
    /\ Starts("dataDisk", "delete")
    /\ \E vm \in Machines, att \in BOOLEAN, cu \in GetResponses :
         LET o == resourceVirtualMachineDataDiskAttachmentDelete(vm, cu)
         IN Proceeds(o, Observed(o.requests, "unused", NoResp, NoResp, vm, att))

ContainerCreate ==
    /\ Starts("container", "create")
    /\ \E c \in CreateResponses :
         LET o == containerCreate(c)
         IN Proceeds(o, Observed(o.requests, "unused", NoResp, c, NoMachine, FALSE))

ContainerCreateOld ==
    /\ Starts("containerOld", "create")
    /\ \E c \in CreateResponses :
         LET o == containerCreateOld(c)
         IN Proceeds(o, Observed(o.requests, "unused", NoResp, c, NoMachine, FALSE))

ContainerCreateWaited ==
    /\ \/ Waited("container")
       \/ Waited("containerOld")
    /\ Returns(containerCreateWaited(requests, outcome))

CrudNext ==
    \/ QueueCreate \/ QueueRead \/ QueueUpdate \/ QueueDelete
    \/ ShareCreate \/ ShareCreateWaited \/ ShareRead \/ ShareUpdate \/ ShareDelete
    \/ ShareDirectoryCreate \/ ShareDirectoryCreateWaited \/ ShareDirectoryRead
    \/ ShareDirectoryUpdate \/ ShareDirectoryDelete
    \/ ShareFileCreate \/ ShareFileRead \/ ShareFileUpdate \/ ShareFileDelete
    \/ DataLakeCreate \/ DataLakeRead \/ DataLakeUpdate \/ DataLakeDelete
    \/ DataDiskCreateUpdate \/ DataDiskRead \/ DataDiskDelete
    \/ ContainerCreate \/ ContainerCreateOld \/ ContainerCreateWaited
    \/ Invoke \/ Return \/ Sleep

CrudSpec == CrudInit /\ [][CrudNext]_vars

(***************************************************************************)
(* Claims about the resource functions                                     *)
(***************************************************************************)
\* a wait has been started in this run
PollStarted == pc # "idle"

\* a request that creates or deletes was sent in this run
MutationSent == \E i \in 1..Len(requests) : requests[i] \in MutatingRequests

(***************************************************************************)
(* C13: a poll session is started only after the function has sent a       *)
(* mutating request (create/delete) to the remote API in the same run: no   *)
(* path starts the wait before such a request was sent, and a function that *)
(* is at its wait has sent the mutating request last.                       *)
(***************************************************************************)
C13_PollAfterMutation ==
    /\ PollStarted => MutationSent /\ operation = "create"
    /\ at = "waiting" => requests[Len(requests)] = "Create"
    /\ at = "start" => ~PollStarted

C13_Witness ==
    /\ resource = "shareDirectory"
    /\ at = "waiting"
    /\ pc = "inflight"
    /\ calls >= 2
    /\ requests = <<"FindAccount", "Get", "Create">>

\* the resources that live in a storage account
StorageResources == {"share", "shareDirectory", "shareFile", "queue", "dataLake"}

\* the places of the data-plane requests among the requests sent
DataPlaneSent == { i \in 1..Len(requests) : IsDataPlane(requests[i]) }

(***************************************************************************)
(* C14: in every create, read, update and delete of a storage resource     *)
(* (share, share directory, share file, queue, Data Lake filesystem) no    *)
(* request goes to the data-plane endpoint unless the storage account was  *)
(* looked up before it and was found; when the lookup fails or finds no    *)
(* account, no data-plane request is sent.                                 *)
(***************************************************************************)
C14_AccountResolvedFirst ==
    resource \in StorageResources =>
        \A i \in DataPlaneSent :
            /\ \E j \in 1..(i - 1) : requests[j] \in LookupRequests
            /\ observed.account = "found"

(***************************************************************************)
(* WorkspaceAADAdminId: the formatter NewWorkspaceAADAdminID(...).ID() and *)
(* the parser WorkspaceAADAdminID.  A string is the sequence of its        *)
(* components between the "/" characters, so "/a/b" is <<"", "a", "b">>,   *)
(* "/" is <<"", "">> and the empty string is <<"">>; a name is the         *)
(* sequence of its components as well, <<"n1", "n2">> being "n1/n2".       *)
(***************************************************************************)
SegmentKeys == {"subscriptions", "resourceGroups", "providers", "workspaces", "administrators"}

Names == { <<"n1">>, <<"n2">>, <<"n1", "n2">> }

WorkspaceAADAdminIds ==
    [SubscriptionId : Names, ResourceGroup : Names, WorkspaceName : Names,
     AdministratorName : Names]

\* ID() that writes the workspace segment key in the singular
IDSingular(n) ==
    <<"", "subscriptions">> \o n.SubscriptionId \o <<"resourceGroups">> \o n.ResourceGroup
        \o <<"providers", "Microsoft.Synapse", "workspace">> \o n.WorkspaceName
        \o <<"administrators">> \o n.AdministratorName

\* WorkspaceAADAdminId.ID()
ID(n) ==
    <<"", "subscriptions">> \o n.SubscriptionId \o <<"resourceGroups">> \o n.ResourceGroup
        \o <<"providers", "Microsoft.Synapse", "workspaces">> \o n.WorkspaceName
        \o <<"administrators">> \o n.AdministratorName

ToUpper(k) ==
    CASE k = "subscriptions" -> "SUBSCRIPTIONS"
      [] k = "resourceGroups" -> "RESOURCEGROUPS"
      [] k = "providers" -> "PROVIDERS"
      [] k = "workspaces" -> "WORKSPACES"
      [] k = "administrators" -> "ADMINISTRATORS"
      [] OTHER -> k

\* the string without one leading and one trailing "/"
TrimSlashes(c) ==
    LET a == IF Len(c) >= 2 /\ c[1] = "" THEN Tail(c) ELSE c
    IN IF Len(a) >= 2 /\ a[Len(a)] = "" THEN SubSeq(a, 1, Len(a) - 1) ELSE a

\* the places of the segment keys in a string of key/value pairs
KeyPlaces(c) == { i \in 1..Len(c) : i % 2 = 1 }

HasSegment(c, k) == \E i \in KeyPlaces(c) : c[i] = k

\* the value of the last segment with key k
SegmentValue(c, k) ==
    LET last == CHOOSE i \in KeyPlaces(c) :
                    /\ c[i] = k
                    /\ \A j \in KeyPlaces(c) : c[j] = k => j <= i
    IN c[last + 1]

ParseError == [ok |-> FALSE, error |-> TRUE]

\* WorkspaceAADAdminID: the string is cut into key/value pairs; every pair
\* must be complete, the five keys must be there in their exact case, and
\* no other segment may be left over
WorkspaceAADAdminID(input) ==
    LET c == TrimSlashes(input)
    IN IF Len(c) % 2 # 0 THEN ParseError
       ELSE IF \E i \in 1..Len(c) : c[i] = "" THEN ParseError
       ELSE IF \E k \in SegmentKeys \ {"providers"} : ~HasSegment(c, k) THEN ParseError
       ELSE IF \E i \in KeyPlaces(c) : c[i] \notin SegmentKeys THEN ParseError
       ELSE IF \E i, j \in KeyPlaces(c) : i # j /\ c[i] = "providers" /\ c[j] = "providers"
            THEN ParseError
       ELSE [ok |-> TRUE, error |-> FALSE,
             SubscriptionId |-> SegmentValue(c, "subscriptions"),
             ResourceGroup |-> SegmentValue(c, "resourceGroups"),
             WorkspaceName |-> SegmentValue(c, "workspaces"),
             AdministratorName |-> SegmentValue(c, "administrators")]

\* string c without its k-th component
Without(c, k) == SubSeq(c, 1, k - 1) \o SubSeq(c, k + 1, Len(c))

\* string c cut after its k-th component, ending in "/"
CutAfter(c, k) == Append(SubSeq(c, 1, k), "")

\* string c with the segment keys in ks written in upper case
UpperCased(c, ks) == [i \in 1..Len(c) |-> IF c[i] \in ks THEN ToUpper(c[i]) ELSE c[i]]

IdInit ==
    /\ idNames \in WorkspaceAADAdminIds
    /\ idInput = <<>>
    /\ idShape = "none"
    /\ idResult = NotParsed
    /\ PollIdle
    /\ CrudIdle
    /\ stateConf = <<>>
    /\ sess = <<>>
    /\ ExistsIdle
    /\ LockIdle

\* the ID is formatted from the names
Format ==
    /\ idShape = "none"
    /\ idInput' = ID(idNames)
    /\ idShape' = "formatted"
    /\ UNCHANGED <<idNames, idResult, pollVars, crudVars, pairVars, existsVars, lockVars>>

\* a segment key or a segment value is left out of the formatted ID
Omit ==
    /\ idShape = "formatted"
    /\ idResult = NotParsed
    /\ \/ \E k \in 2..Len(idInput) : idInput' = Without(idInput, k)
       \/ \E k \in 1..(Len(idInput) - 1) : idInput' = CutAfter(idInput, k)
       \/ idInput' = <<"">>
    /\ idShape' = "omitted"
    /\ UNCHANGED <<idNames, idResult, pollVars, crudVars, pairVars, existsVars, lockVars>>

\* segment keys of the formatted ID are written in upper case
UpperCase ==
    /\ idShape = "formatted"
    /\ idResult = NotParsed
    /\ \E ks \in SUBSET SegmentKeys \ {{}} : idInput' = UpperCased(idInput, ks)
    /\ idShape' = "uppercased"
    /\ UNCHANGED <<idNames, idResult, pollVars, crudVars, pairVars, existsVars, lockVars>>

\* the string is parsed
Parse ==
    /\ idShape # "none"
    /\ idResult = NotParsed
    /\ idResult' = WorkspaceAADAdminID(idInput)
    /\ UNCHANGED <<idNames, idInput, idShape, pollVars, crudVars, pairVars, existsVars, lockVars>>

IdNext == Format \/ Omit \/ UpperCase \/ Parse

IdSpec == IdInit /\ [][IdNext]_vars

\* the parser returned the four names
ParsedAs(n) ==
    /\ idResult.ok
    /\ <<idResult.SubscriptionId>> = n.SubscriptionId
    /\ <<idResult.ResourceGroup>> = n.ResourceGroup
    /\ <<idResult.WorkspaceName>> = n.WorkspaceName
    /\ <<idResult.AdministratorName>> = n.AdministratorName

Parsed == idResult.ok \/ idResult.error

\* no name holds a "/"
NoSlashInNames ==
    \A f \in {"SubscriptionId", "ResourceGroup", "WorkspaceName", "AdministratorName"} :
        Len(idNames[f]) = 1

CreateUpdateReturned ==
    resource = "dataDisk" /\ operation \in {"create", "update"} /\ at = "returned"

(***************************************************************************)
(* C16: data disk attachment CreateUpdate returns the "`model/properties`  *)
(* was nil" error exactly when the Model of the fetched virtual machine or *)
(* its Properties is nil; when both are present it goes on (to the managed *)
(* disk, the data-disk list and CreateOrUpdateThenPoll), as Delete does.   *)
(***************************************************************************)
C16_WasNilErrorWhenNil ==
    CreateUpdateReturned /\ observed.machine # "error" =>
        /\ returned = "wasNil" <=> ModelOrPropertiesNil(observed.machine)
        /\ observed.machine = "full" => Sent(requests, "Disks.Get")

\* the wait is one of the create retries of the container and share wrappers
CreateRetrySite == site \in {"container", "containerOld", "share"}

(***************************************************************************)
(* C17: the create-retry refresh function of the container and share       *)
(* wrappers reports the target state "succeeded" only when its create call *)
(* returned no error; a create that fails with a 409 conflict whose        *)
(* message is not "...BeingDeleted" is never reported as "succeeded".      *)
(***************************************************************************)
C17_SucceededOnlyWithoutError ==
    CreateRetrySite /\ Len(trace) >= 1 =>
        LET last == trace[Len(trace)]
        IN ~last.r.panic /\ last.r.state = "succeeded" => ~last.resp.err

\* the resources whose create goes through a Create wrapper with a retry
WrapperResources == {"container", "containerOld", "share"}

\* the wrapper's first create has been answered
WrapperCreated ==
    resource \in WrapperResources /\ operation = "create" /\ Sent(requests, "Create")

\* the first create failed because a delete of the same name is in progress
FailedBeingDeleted(c) == c.err /\ WasConflict(c) /\ c.beingDeleted

\* what the wrappers do with the answer c of their first create
RetryOnlyWhenBeingDeleted(c) ==
    /\ PollStarted <=> FailedBeingDeleted(c)
    /\ ~c.err => IF resource = "share" THEN Sent(requests, "UpdateACLs")
                 ELSE returned = "nil"
    /\ c.err /\ ~FailedBeingDeleted(c) => returned = "error" /\ calls = 0

(***************************************************************************)
(* C18: the container and share Create wrappers enter the retry/poll loop  *)
(* if and only if the first create call failed with HTTP 409 Conflict and  *)
(* an error message containing the "BeingDeleted" marker; a successful     *)
(* first create returns nil without polling, and any other failure is      *)
(* returned as an error without re-issuing the create.                     *)
(***************************************************************************)
C18_RetryIffBeingDeleted ==
    WrapperCreated => RetryOnlyWhenBeingDeleted(observed.created)

\* the same for the wrappers that test the response with response.WasConflict
C18_NilSafeWrappers ==
    WrapperCreated /\ resource # "containerOld" =>
        RetryOnlyWhenBeingDeleted(observed.created)

\* a share directory is being created, or its create has returned
DirectoryCreate == resource = "shareDirectory" /\ operation = "create"

\* the status check of the wait was last answered with 404
LastAnswerNotFound == Len(trace) >= 1 /\ WasNotFound(trace[Len(trace)].resp)

\* the resource ID is set only after a wait that succeeded, and a wait that
\* failed makes the create return an error with no ID
IdAfterSuccessfulWait ==
    /\ resourceId # "" => outcome = "success"
    /\ at = "returned" /\ PollStarted /\ outcome \notin {"success", "panic"} =>
           returned = "error" /\ resourceId = ""

(***************************************************************************)
(* C19: during share directory creation a not-found (404) answer from the  *)
(* status check is treated as pending and polling continues until the      *)
(* directory is observed as available (200); the resource ID is recorded   *)
(* in state only after the wait has succeeded, and a failed wait returns   *)
(* an error with no ID set.                                                *)
(***************************************************************************)
C19_NotFoundIsPending ==
    DirectoryCreate =>
        /\ LastAnswerNotFound => class = "pending" /\ outcome # "error"
        /\ IdAfterSuccessfulWait

\* the part of C19 about the resource ID alone
C19_IdOnlyAfterWait == DirectoryCreate => IdAfterSuccessfulWait

\* the resources whose create checks for an existing resource and imports
ImportCheckedStorage == {"queue", "shareDirectory", "dataLake"}

\* the create has looked for the resource and the remote side has it
FoundPresent ==
    /\ operation = "create"
    /\ at # "start"
    /\ IF resource = "dataDisk" THEN observed.attached
       ELSE observed.existing.hasResp /\ ~observed.existing.err

\* the create refuses to adopt the resource
ReturnsImportAsExists ==
    returned = "importAsExists" /\ ~MutationSent /\ resourceId = ""

(***************************************************************************)
(* C20: a create operation that finds the resource already present         *)
(* remotely returns the import-as-exists error, issues no mutating request *)
(* (no Create / CreateOrUpdate) and leaves the resource ID unset; this     *)
(* holds for the queue, share directory, Data Lake filesystem and (for a   *)
(* new resource) the data disk attachment.                                 *)
(***************************************************************************)
C20_ImportAsExists ==
    resource \in ImportCheckedStorage \cup {"dataDisk"} /\ FoundPresent =>
        ReturnsImportAsExists

\* the same for the three storage resources alone
C20_StorageImportAsExists ==
    resource \in ImportCheckedStorage /\ FoundPresent => ReturnsImportAsExists

C20_StoragePresent ==
    resource \in ImportCheckedStorage /\ FoundPresent /\ at = "returned"

(***************************************************************************)
(* The Exists methods of the data-plane wrappers                           *)
(***************************************************************************)
\* DataPlaneStorageContainerWrapper.Exists (shim/containers_data_plane.go)
containerExists(resp) ==
    IF resp.err
    THEN IF WasNotFound(resp) THEN Wrapped("false", FALSE) ELSE Wrapped("nil", TRUE)
    ELSE Wrapped("true", FALSE)

\* DataPlaneStorageContainerWrapper.Exists (older copy): returns the error
\* for a 404 and goes on to read the status after any other error
containerExistsOld(resp) ==
    IF ~resp.hasResp THEN WrappedPanic
    ELSE IF resp.err /\ resp.status = StatusNotFound THEN Wrapped("nil", TRUE)
    ELSE IF resp.status # StatusNotFound THEN Wrapped("true", FALSE)
    ELSE Wrapped("false", FALSE)

\* DataPlaneStorageTableWrapper.Exists
tableExists(resp) ==
    IF resp.err
    THEN IF ~resp.hasResp THEN WrappedPanic
         ELSE IF resp.status # StatusNotFound THEN Wrapped("nil", FALSE)
         ELSE Wrapped("nil", TRUE)
    ELSE Wrapped("true", FALSE)

Wrappers == {"container", "containerOld", "queue", "share", "table"}

\* the wrapper has not been called
NotCalled == [val |-> "uncalled", err |-> FALSE, panic |-> FALSE]

ExistsInit ==
    /\ existsResponse \in GetResponses
    /\ existsResult = [w \in Wrappers |-> NotCalled]
    /\ PollIdle
    /\ CrudIdle
    /\ IdIdle
    /\ LockIdle
    /\ stateConf = <<>>
    /\ sess = <<>>

\* wrapper w is called for the first time and returns r
ExistsReturns(w, r) ==
    /\ existsResult[w] = NotCalled
    /\ existsResult' = [existsResult EXCEPT ![w] = r]
    /\ UNCHANGED <<existsResponse, pollVars, pairVars, crudVars, idVars, lockVars>>

ContainerExists == ExistsReturns("container", containerExists(existsResponse))

ContainerExistsOld == ExistsReturns("containerOld", containerExistsOld(existsResponse))

QueueExists == ExistsReturns("queue", queueExists(existsResponse))

ShareExists == ExistsReturns("share", shareExists(existsResponse))

TableExists == ExistsReturns("table", tableExists(existsResponse))

ExistsNext ==
    \/ ContainerExists \/ ContainerExistsOld \/ QueueExists \/ ShareExists
    \/ TableExists

ExistsSpec == ExistsInit /\ [][ExistsNext]_vars

\* what the claim expects Exists to return for the answer resp
ExpectedExists(resp) ==
    IF ~resp.err THEN Wrapped("true", FALSE)
    ELSE IF WasNotFound(resp) THEN Wrapped("false", FALSE)
    ELSE Wrapped("nil", TRUE)

Called == { w \in Wrappers : existsResult[w] # NotCalled }

(***************************************************************************)
(* C21: the Exists method of every data-plane wrapper (container, queue,   *)
(* share, table) returns false with no error when the remote answers       *)
(* not-found, true with no error when the lookup succeeds, and a nil       *)
(* result with a non-nil error for any other failure; the two container    *)
(* implementations and the queue, share and table implementations agree on *)
(* this for every response.                                                *)
(***************************************************************************)
C21_ExistsAgree ==
    /\ \A w \in Called : existsResult[w] = ExpectedExists(existsResponse)
    /\ \A w1, w2 \in Called : existsResult[w1] = existsResult[w2]

\* the same for the two wrappers that test the response with WasNotFound
C21_NilSafeExists ==
    \A w \in Called \cap {"container", "share"} :
        existsResult[w] = ExpectedExists(existsResponse)

\* the resources of the creates that go on after their Create has succeeded
CreateThenMore == {"share", "shareDirectory", "shareFile", "dataLake"}

\* the create has returned and its remote Create had succeeded, at once or
\* (share) at the end of the retries
RemotelyCreated ==
    /\ operation = "create"
    /\ at = "returned"
    /\ Sent(requests, "Create")
    /\ \/ ~observed.created.err
       \/ resource = "share" /\ outcome = "success"

\* no error return leaves the created resource without an ID
IdKept == returned = "error" => resourceId # ""

(***************************************************************************)
(* C22: for every create operation (share, share directory, share file,    *)
(* Data Lake filesystem), once the remote create call has succeeded the    *)
(* resource ID is recorded in state by the time the operation returns,     *)
(* also when a later step (ACL update, access-control update, file upload, *)
(* availability wait) fails; a create never returns an error leaving a     *)
(* remotely created resource with no ID in state.                          *)
(***************************************************************************)
C22_IdKeptAfterRemoteCreate ==
    resource \in CreateThenMore /\ RemotelyCreated => IdKept

\* the same for the share alone, which sets the ID right after its Create
C22_ShareKeepsId == resource = "share" /\ RemotelyCreated => IdKept

(***************************************************************************)
(* Data disk attachment operations on shared machines.  Each operation     *)
(* takes the lock named after its machine, fetches the machine, changes    *)
(* its copy of the data-disk list and writes the machine back; the         *)
(* deferred unlock runs when the function returns or panics.               *)
(***************************************************************************)
LockProcs == {1, 2}

VMs == {"vm1", "vm2"}

DiskNames == {"d1", "d2"}

DiskOperations == {"create", "update", "delete"}

\* the data-disk lists a machine may have at the start
InitialDisks == {{"d1"}, DiskNames}

\* locks.ByName: the lock of that name is free and the caller takes it
LockByName(name, p) ==
    /\ vmLock[name] = 0
    /\ vmLock' = [vmLock EXCEPT ![name] = p]

\* locks.UnlockByName: the lock of that name is free again
UnlockByName(name) == vmLock' = [vmLock EXCEPT ![name] = 0]

LockInit ==
    /\ vmLock = [v \in VMs |-> 0]
    /\ dataDisks \in [VMs -> InitialDisks]
    /\ serialDisks = dataDisks
    /\ proc \in [LockProcs -> [op : DiskOperations, vm : VMs, disk : DiskNames,
                               pc : {"start"}, machine : {"none"}, seen : {{}},
                               ret : {"none"}]]
    /\ PollIdle
    /\ CrudIdle
    /\ IdIdle
    /\ ExistsIdle
    /\ stateConf = <<>>
    /\ sess = <<>>

notLockVars == <<pollVars, pairVars, crudVars, idVars, existsVars>>

\* the operation goes on without the lock
DiskLockSkipped(p) ==
    /\ proc[p].pc = "start"
    /\ proc' = [proc EXCEPT ![p].pc = "locked"]
    /\ UNCHANGED <<vmLock, dataDisks, serialDisks, notLockVars>>

\* locks.ByName(VirtualMachineName, VirtualMachineResourceName)
DiskLock(p) ==
    /\ proc[p].pc = "start"
    /\ LockByName(proc[p].vm, p)
    /\ proc' = [proc EXCEPT ![p].pc = "locked"]
    /\ UNCHANGED <<dataDisks, serialDisks, notLockVars>>

\* client.Get: the machine as it is now, or a failure
DiskGet(p) ==
    /\ proc[p].pc = "locked"
    /\ \E m \in Machines :
         proc' = [proc EXCEPT ![p].pc = "fetched",
                              ![p].machine = m,
                              ![p].seen = IF m = "full" THEN dataDisks[proc[p].vm]
                                          ELSE {}]
    /\ UNCHANGED <<vmLock, dataDisks, serialDisks, notLockVars>>

\* the write of CreateOrUpdateThenPoll: the machine gets the list that the
\* operation built from its copy
DiskWrite(p, o, cu, list, serial) ==
    /\ proc' = [proc EXCEPT ![p].pc = "finished", ![p].ret = o.ret]
    /\ IF Sent(o.requests, "CreateOrUpdateThenPoll") /\ ~cu.err
       THEN /\ dataDisks' = [dataDisks EXCEPT ![proc[p].vm] = list]
            /\ serialDisks' = [serialDisks EXCEPT ![proc[p].vm] = serial]
       ELSE UNCHANGED <<dataDisks, serialDisks>>
    /\ UNCHANGED <<vmLock, notLockVars>>

\* resourceVirtualMachineDataDiskAttachmentCreateUpdate from the fetched
\* machine to its return
DiskCreateUpdate(p) ==
    /\ proc[p].pc = "fetched"
    /\ proc[p].op \in {"create", "update"}
    /\ \E md \in ManagedDisks, cu \in GetResponses, rd \in Attachments :
         LET o == resourceVirtualMachineDataDiskAttachmentCreateUpdate(
                      "", proc[p].op = "create", proc[p].machine, md,
                      proc[p].disk \in proc[p].seen, cu, rd)
         IN DiskWrite(p, o, cu, proc[p].seen \cup {proc[p].disk},
                      serialDisks[proc[p].vm] \cup {proc[p].disk})

\* resourceVirtualMachineDataDiskAttachmentDelete from the fetched machine
\* to its return
DiskDelete(p) ==
    /\ proc[p].pc = "fetched"
    /\ proc[p].op = "delete"
    /\ \E cu \in GetResponses :
         LET o == resourceVirtualMachineDataDiskAttachmentDelete(proc[p].machine, cu)
         IN DiskWrite(p, o, cu, proc[p].seen \ {proc[p].disk},
                      serialDisks[proc[p].vm] \ {proc[p].disk})

\* defer locks.UnlockByName(...)
DiskUnlock(p) ==
    /\ proc[p].pc = "finished"
    /\ UnlockByName(proc[p].vm)
    /\ proc' = [proc EXCEPT ![p].pc = "returned"]
    /\ UNCHANGED <<dataDisks, serialDisks, notLockVars>>

LockNext ==
    \E p \in LockProcs :
        \/ DiskLock(p)
        \/ DiskGet(p)
        \/ DiskCreateUpdate(p)
        \/ DiskDelete(p)
        \/ DiskUnlock(p)

LockSpec == LockInit /\ [][LockNext]_vars

\* the operation is between its lock and its deferred unlock
InLockedSection(p) == proc[p].pc \in {"locked", "fetched", "finished"}

(***************************************************************************)
(* C23: data disk attachment CreateUpdate and Delete hold the              *)
(* per-virtual-machine named lock from before the VM is fetched until      *)
(* after CreateOrUpdateThenPoll returns, and release it on every return    *)
(* path; two such operations on the same VM never overlap their            *)
(* read-modify-write of the data-disk list, so neither one's change to the *)
(* list is lost.                                                           *)
(***************************************************************************)
C23_LockedReadModifyWrite ==
    /\ \A p \in LockProcs :
          /\ InLockedSection(p) => vmLock[proc[p].vm] = p
          /\ proc[p].pc \in {"start", "returned"} => vmLock[proc[p].vm] # p
    /\ \A p, q \in LockProcs :
          p # q /\ proc[p].vm = proc[q].vm => ~(InLockedSection(p) /\ InLockedSection(q))
    /\ dataDisks = serialDisks

C23_Witness ==
    /\ proc[1].vm = proc[2].vm
    /\ proc[1].op = "delete" /\ proc[2].op = "delete"
    /\ proc[1].disk = "d1" /\ proc[2].disk = "d2"
    /\ proc[1].pc = "returned" /\ proc[2].pc = "returned"
    /\ proc[1].ret = "nil" /\ proc[2].ret = "nil"
    /\ proc[1].seen = {"d1", "d2"} /\ proc[2].seen = {"d2"}
    /\ dataDisks[proc[1].vm] = {}
====
